---- MODULE Spec2Model ----
(***************************************************************************)
(* A model of great_expectations/core/yaml_handler.py: the YAMLHandler     *)
(* facade (load, dump, _dump, _dump_and_return_value) over one shared,     *)
(* configured YAML engine.                                                 *)
(*                                                                         *)
(* A text is a sequence of lines; a line is a record                       *)
(*   [col, dash, tag, key, val]                                            *)
(* (column of the content, column of a sequence dash, kind of line, key,   *)
(* scalar values).  A document is a sequence of <<key, value>> pairs with  *)
(* distinct keys.  The engine (ruamel.yaml) is outside the repository: it  *)
(* is modelled by its interface as the facade uses it, self-contained per  *)
(* call (it reads its settings, the data and the keyword arguments, and    *)
(* writes to the stream it is handed).                                     *)
(***************************************************************************)
EXTENDS Integers, Sequences, FiniteSets, TLC

\* Longest sequence value of a document.
MaxItems == 2

Keys == {"a", "b"}
Scalars == {1, 2}

\* ------------------------------------------------------------- values

IntV(v) == [kind |-> "int", key |-> "", val |-> <<v>>]
SeqV(n) == [kind |-> "seq", key |-> "", val |-> [i \in 1..n |-> i]]
MapV(k, v) == [kind |-> "map", key |-> k, val |-> <<v>>]
NullV == [kind |-> "null", key |-> "", val |-> <<>>]
\* A value with no safe representation (an arbitrary object).
ObjV == [kind |-> "obj", key |-> "", val |-> <<>>]

SafeValues == {IntV(v) : v \in Scalars} \cup {SeqV(n) : n \in 1..MaxItems}
                \cup {MapV("n", 1)}
Values == SafeValues \cup {ObjV}

OneKey(V) == {<<<<k, v>>>> : k \in Keys, v \in V}
TwoKeys(V) ==
    {<<<<k1, v1>>, <<k2, v2>>>> :
        k1 \in Keys, k2 \in Keys, v1 \in V, v2 \in V} \
    {<<<<k, v1>>, <<k, v2>>>> : k \in Keys, v1 \in V, v2 \in V}
\* The mappings over V with distinct keys, in every insertion order.
DocsOver(V) == {<<>>} \cup OneKey(V) \cup TwoKeys(V)

SafeDocs == DocsOver(SafeValues)
Docs == DocsOver(Values)

HasObj(data) == \E i \in 1..Len(data) : data[i][2].kind = "obj"

\* ------------------------------------------------------------- engine

\* The settings of the shared engine after the class body has run.
Construct ==
    [typ |-> "safe", mapping |-> 2, sequence |-> 4, offset |-> 2,
     default_flow_style |-> FALSE]

Line(c, t, k, v) == [col |-> c, dash |-> 0, tag |-> t, key |-> k, val |-> v]
Item(h, v) == [col |-> h.sequence, dash |-> h.offset, tag |-> "item",
               key |-> "", val |-> <<v>>]

\* The lines of one key of a mapping under settings h.
EmitPair(h, p) ==
    LET k == p[1]
        v == p[2]
    IN CASE v.kind = "int" -> <<Line(0, "kv", k, v.val)>>
         [] v.kind = "null" -> <<Line(0, "k", k, <<>>)>>
         [] v.kind = "seq" ->
              IF h.default_flow_style
              THEN <<Line(0, "kflow", k, v.val)>>
              ELSE <<Line(0, "k", k, <<>>)>>
                     \o [i \in 1..Len(v.val) |-> Item(h, v.val[i])]
         [] v.kind = "map" ->
              IF h.default_flow_style
              THEN <<Line(0, "kmapflow", k, v.val)>>
              ELSE <<Line(0, "k", k, <<>>), Line(h.mapping, "kv", v.key, v.val)>>
         [] OTHER -> <<>>

RECURSIVE EmitFrom(_, _, _)
\* The lines of data[i..], up to the first value that has no representation.
EmitFrom(h, data, i) ==
    IF i > Len(data) \/ data[i][2].kind = "obj"
    THEN <<>>
    ELSE EmitPair(h, data[i]) \o EmitFrom(h, data, i + 1)

Emit(h, data) ==
    IF data = <<>> THEN <<Line(0, "empty", "", <<>>)>> ELSE EmitFrom(h, data, 1)

\* The caller's transform of the emitted text: it moves every line right.
Transform(text) ==
    [i \in 1..Len(text) |->
        [text[i] EXCEPT !.col = @ + 1,
                        !.dash = IF text[i].tag = "item" THEN @ + 1 ELSE @]]

\* What the engine emits for one dump call.
EngineText(h, data, kw) ==
    IF kw = "transform" THEN Transform(Emit(h, data)) ELSE Emit(h, data)

\* The engine's dump into a stream holding `content`.  A value outside the
\* safe subset is rejected when the data is represented, before anything is
\* emitted.  A failing write of the stream (sfail) ends the call with an
\* error after n lines have reached the stream.
EngineDump(h, data, content, kw, sfail, n) ==
    LET text == EngineText(h, data, kw)
    IN IF HasObj(data)
       THEN [err |-> "SerializationError", content |-> content]
       ELSE IF sfail
       THEN [err |-> "IOError", content |-> content \o SubSeq(text, 1, n)]
       ELSE [err |-> "", content |-> content \o text]

ParseErr == [err |-> "ParseError", null |-> FALSE, doc |-> <<>>]

RECURSIVE ChildCount(_, _, _)
\* How many lines from i on lie deeper than column base.
ChildCount(text, i, base) ==
    IF i > Len(text) \/ text[i].col <= base
    THEN 0
    ELSE 1 + ChildCount(text, i + 1, base)

KeysOf(doc) == {doc[i][1] : i \in 1..Len(doc)}

RECURSIVE ParseFrom(_, _, _)
\* Block-style lines text[i..] read into the mapping acc.
ParseFrom(text, i, acc) ==
    IF i > Len(text)
    THEN [err |-> "", null |-> FALSE, doc |-> acc]
    ELSE
      LET l == text[i]
          base == text[1].col
          n == ChildCount(text, i + 1, base)
          kids == SubSeq(text, i + 1, i + n)
      IN IF l.col # base \/ l.key \in KeysOf(acc) \/ l.tag \notin {"kv", "k"}
         THEN ParseErr
         ELSE IF l.tag = "kv"
         THEN IF n = 0
              THEN ParseFrom(text, i + 1, Append(acc, <<l.key, IntV(l.val[1])>>))
              ELSE ParseErr
         ELSE IF n = 0
         THEN ParseFrom(text, i + 1, Append(acc, <<l.key, NullV>>))
         ELSE IF \A j \in 1..n : kids[j].tag = "item" /\ kids[j].col = kids[1].col
         THEN ParseFrom(text, i + n + 1,
                  Append(acc, <<l.key, [kind |-> "seq", key |-> "",
                                        val |-> [j \in 1..n |-> kids[j].val[1]]]>>))
         ELSE IF n = 1 /\ kids[1].tag = "kv"
         THEN ParseFrom(text, i + n + 1,
                  Append(acc, <<l.key, MapV(kids[1].key, kids[1].val[1])>>))
         ELSE ParseErr

\* The engine's load of a text: a mapping, nothing (an empty input), or an error.
EngineLoad(h, text) ==
    IF text = <<>> THEN [err |-> "", null |-> TRUE, doc |-> <<>>]
    ELSE IF Len(text) = 1 /\ text[1].tag = "empty"
    THEN [err |-> "", null |-> FALSE, doc |-> <<>>]
    ELSE ParseFrom(text, 1, <<>>)

\* ------------------------------------------------------------- facade

VARIABLES
    handler,   \* YAMLHandler._handler: the settings of the shared engine
    streams,   \* the content of the caller's streams
    last,      \* the call just made, with what the caller observes of it
    memo       \* a text an earlier dump returned, kept by the caller

vars == <<handler, streams, last, memo>>

\* The caller's streams: s1 is an ordinary stream object, s0 a writable
\* object whose truth value is false (its __bool__ or __len__ says so).
StreamIds == {"s0", "s1"}
Dests == {"none"} \cup StreamIds
Opts == {"none", "transform"}

\* bool(stream), as `if stream:` evaluates it.
Truth(dest) == dest = "s1"

NoneRet == [kind |-> "none", text |-> <<>>, doc |-> <<>>]
TextRet(t) == [kind |-> "text", text |-> t, doc |-> <<>>]
DocRet(d) == [kind |-> "doc", text |-> <<>>, doc |-> d]
\* The call raised: it has no value.
NoResult == [kind |-> "raised", text |-> <<>>, doc |-> <<>>]

\* A facade that catches the engine's error and hands back an empty mapping.
load_Swallowing(h, text) ==
    LET r == EngineLoad(h, text)
    IN [ret |-> IF r.null THEN NoneRet ELSE DocRet(r.doc), err |-> "", handler |-> h]

\* YAMLHandler.load: the engine's result, or its error, as it is.
load(h, text) ==
    LET r == EngineLoad(h, text)
    IN [ret |-> IF r.err # "" THEN NoResult
                ELSE IF r.null THEN NoneRet ELSE DocRet(r.doc),
        err |-> r.err, handler |-> h]

\* A _dump that rewinds the stream and overwrites what it held.
dump_Overwriting(h, data, strs, dest, kw, sfail, n) ==
    LET r == EngineDump(h, data, <<>>, kw, sfail, n)
    IN [ret |-> IF r.err # "" THEN NoResult ELSE NoneRet, err |-> r.err,
        handler |-> h, streams |-> [strs EXCEPT ![dest] = r.content],
        data |-> data]

\* A _dump that applies the keyword arguments to the shared engine.
dump_Reconfiguring(h, data, strs, dest, kw, sfail, n) ==
    LET r == EngineDump(h, data, strs[dest], kw, sfail, n)
    IN [ret |-> IF r.err # "" THEN NoResult ELSE NoneRet, err |-> r.err,
        handler |-> IF kw = "none" THEN h
                    ELSE [h EXCEPT !.default_flow_style = TRUE],
        streams |-> [strs EXCEPT ![dest] = r.content],
        data |-> data]

\* YAMLHandler._dump: the engine writes into the caller's stream, in place.
_dump(h, data, strs, dest, kw, sfail, n) ==
    LET r == EngineDump(h, data, strs[dest], kw, sfail, n)
    IN [ret |-> IF r.err # "" THEN NoResult ELSE NoneRet, err |-> r.err,
        handler |-> h, streams |-> [strs EXCEPT ![dest] = r.content],
        data |-> data]

\* A _dump_and_return_value that applies the keyword arguments to the engine.
dump_and_return_Reconfiguring(h, data, strs, kw, n) ==
    LET r == EngineDump(h, data, <<>>, kw, FALSE, n)
    IN [ret |-> IF r.err # "" THEN NoResult ELSE TextRet(r.content),
        err |-> r.err,
        handler |-> IF kw = "none" THEN h
                    ELSE [h EXCEPT !.default_flow_style = TRUE],
        streams |-> strs, data |-> data]

\* A _dump_and_return_value whose buffer is a stream kept from a caller.
dump_and_return_Retaining(h, data, strs, kw, n) ==
    LET r == EngineDump(h, data, strs["s1"], kw, FALSE, n)
    IN [ret |-> IF r.err # "" THEN NoResult ELSE TextRet(r.content),
        err |-> r.err, handler |-> h,
        streams |-> [strs EXCEPT !["s1"] = r.content], data |-> data]

\* YAMLHandler._dump_and_return_value: a fresh io.StringIO, the engine's dump
\* into it, and its getvalue().
_dump_and_return_value(h, data, strs, kw, n) ==
    LET r == EngineDump(h, data, <<>>, kw, FALSE, n)
    IN [ret |-> IF r.err # "" THEN NoResult ELSE TextRet(r.content),
        err |-> r.err, handler |-> h, streams |-> strs, data |-> data]

\* A dump that takes the in-place path whenever a stream is supplied.
dump_IfSupplied(h, data, strs, dest, kw, sfail, n) ==
    IF dest # "none"
    THEN _dump(h, data, strs, dest, kw, sfail, n)
    ELSE _dump_and_return_value(h, data, strs, kw, n)

\* YAMLHandler.dump.
dump(h, data, strs, dest, kw, sfail, n) ==
    IF Truth(dest)
    THEN _dump(h, data, strs, dest, kw, sfail, n)
    ELSE _dump_and_return_value(h, data, strs, kw, n)

\* ------------------------------------------------------------- calls

\* What the streams the caller hands over may already hold: s1 is empty or
\* holds a line, s0 is empty.
PreLine == Line(0, "kv", "h", <<1>>)
PreStreams == {[s \in StreamIds |-> IF s = "s1" THEN c ELSE <<>>] : c \in {<<>>, <<PreLine>>}}

\* "key: [unterminated"
Unterminated == <<Line(0, "open", "key", <<>>)>>
\* The texts a caller loads from a string.
LoadTexts == {Emit(Construct, d) : d \in SafeDocs} \cup {Unterminated, <<>>}

Idle ==
    [op |-> "idle", data |-> <<>>, dataAfter |-> <<>>, dest |-> "none",
     kw |-> "none", src |-> <<>>, before |-> [s \in StreamIds |-> <<>>],
     err |-> "", engineErr |-> "", ret |-> NoneRet]

NoMemo == [set |-> FALSE, mixed |-> FALSE, data |-> <<>>, text |-> <<>>]

\* The dump returned a text and no formatting override was passed.
PlainText(kw, e) == kw = "none" /\ e.err = "" /\ e.ret.kind = "text"

Init ==
    /\ handler = Construct
    /\ streams \in PreStreams
    /\ last = Idle
    /\ memo = NoMemo

\* One call of YAMLHandler.dump(data, stream, **kwargs).  The caller picks the
\* arguments; the environment picks whether a write of the caller's stream
\* fails (sfail) and how many lines reached the stream before a failure (n).
Dump ==
    /\ last.op = "idle"
    /\ \E data \in Docs, dest \in Dests, kw \in Opts, sfail \in BOOLEAN :
         \E n \in 0..Len(EngineText(handler, data, kw)) :
           /\ sfail => (Truth(dest) /\ ~HasObj(data)
                          /\ n < Len(EngineText(handler, data, kw)))
           /\ ~sfail => n = Len(EngineText(handler, data, kw))
           /\ LET e == dump(handler, data, streams, dest, kw, sfail, n)
              IN /\ handler' = e.handler
                 /\ streams' = e.streams
                 /\ last' = [op |-> "dump", data |-> data, dataAfter |-> e.data,
                             dest |-> dest, kw |-> kw, src |-> <<>>,
                             before |-> streams, err |-> e.err,
                             engineErr |-> IF HasObj(data) THEN "SerializationError"
                                           ELSE IF sfail THEN "IOError" ELSE "",
                             ret |-> e.ret]
                 /\ IF memo.set
                    THEN memo' = IF PlainText(kw, e) /\ data = memo.data
                                 THEN memo ELSE [memo EXCEPT !.mixed = TRUE]
                    ELSE IF PlainText(kw, e)
                    THEN memo' \in {memo, [set |-> TRUE, mixed |-> FALSE,
                                           data |-> data, text |-> e.ret.text]}
                    ELSE memo' = memo

LoadRecord(text, e) ==
    [op |-> "load", data |-> <<>>, dataAfter |-> <<>>, dest |-> "none",
     kw |-> "none", src |-> text, before |-> streams, err |-> e.err,
     engineErr |-> EngineLoad(Construct, text).err, ret |-> e.ret]

\* One call of YAMLHandler.load(stream) on a string.
Load ==
    /\ last.op = "idle"
    /\ \E text \in LoadTexts :
         LET e == load(handler, text)
         IN /\ handler' = e.handler
            /\ last' = LoadRecord(text, e)
    /\ memo' = IF memo.set THEN [memo EXCEPT !.mixed = TRUE] ELSE memo
    /\ UNCHANGED streams

\* One call of YAMLHandler.load(stream) on a stream a dump has written.
LoadStream ==
    /\ last.op = "dump"
    /\ \E s \in StreamIds :
         LET e == load(handler, streams[s])
         IN /\ handler' = e.handler
            /\ last' = LoadRecord(streams[s], e)
    /\ memo' = IF memo.set THEN [memo EXCEPT !.mixed = TRUE] ELSE memo
    /\ UNCHANGED streams

\* The caller takes the result and gets fresh streams ready for its next call.
Prepare ==
    /\ last.op # "idle"
    /\ last' = Idle
    /\ streams' \in PreStreams
    /\ UNCHANGED <<handler, memo>>

Next == Dump \/ Load \/ LoadStream \/ Prepare

Spec == Init /\ [][Next]_vars

\* ------------------------------------------------------------- properties

\* The text the engine serializes for the call just made.
Serialized == EngineText(handler, last.data, last.kw)
IsDump == last.op = "dump"
Succeeded == last.err = ""

\* C1 (as stated): a dump that completes with a destination supplied has
\* written the serialized text into it and returned None; with none supplied
\* it has returned the text and written to no stream of the caller.
C1_SuppliedDestinationWritten ==
    (IsDump /\ Succeeded) =>
        IF last.dest # "none"
        THEN /\ last.ret = NoneRet
             /\ streams[last.dest] = last.before[last.dest] \o Serialized
        ELSE /\ last.ret = TextRet(Serialized)
             /\ streams = last.before

\* C2 (as stated): after dump(D, destination=S) on an initially empty stream S
\* completes, the content of S is the text dump(D) returns with no destination.
C2_StreamEqualsReturnedText ==
    (IsDump /\ Succeeded /\ last.dest # "none" /\ last.before[last.dest] = <<>>) =>
        streams[last.dest] =
            dump(handler, last.data, last.before, "none", last.kw, FALSE,
                 Len(Serialized)).ret.text

\* C4: a dump with no destination and no formatting override returns, for a
\* document it was given before, the very text it returned then, whatever
\* calls were made in between.
C4_SameTextAgain ==
    (IsDump /\ Succeeded /\ last.kw = "none" /\ last.ret.kind = "text"
        /\ memo.set /\ memo.data = last.data) =>
        last.ret.text = memo.text

\* A second dump of the remembered document, after other calls were made.
C4_Witness ==
    /\ IsDump /\ Succeeded /\ last.kw = "none" /\ last.ret.kind = "text"
    /\ memo.set /\ memo.mixed /\ memo.data = last.data
    /\ Len(last.data) = 2

\* C5: in every reachable state the shared engine has the settings it was
\* constructed with: safe, mapping 2, sequence 4, offset 2, block style.
C5_SettingsFixed ==
    /\ handler = Construct
    /\ handler.typ = "safe" /\ handler.mapping = 2 /\ handler.sequence = 4
    /\ handler.offset = 2 /\ handler.default_flow_style = FALSE

\* A dump that passed formatting options and failed.
C5_Witness ==
    IsDump /\ last.kw = "transform" /\ last.err = "SerializationError"
           /\ handler = Construct

\* C6: the error the engine raises during load or dump is the error the
\* caller gets, and a call that raises yields no value.
C6_ErrorsReachCaller ==
    /\ last.err = last.engineErr
    /\ last.err # "" => last.ret = NoResult

\* load("key: [unterminated") raised ParseError.
C6_Witness ==
    last.op = "load" /\ last.src = Unterminated /\ last.err = "ParseError"
                     /\ last.ret = NoResult

====
